---- MODULE Spec2Model ----
(***************************************************************************)
(* A model of the AVI recording session of src/file_export.c: the static   *)
(* variables of the translation unit, the file that is being written, and  *)
(* the operations AVI_OpenFile, AVI_AddVideoFrame, AVI_AddAudioSamples and  *)
(* AVI_CloseFile with the helpers AVI_WriteHeader, AVI_WriteFrame and       *)
(* AVI_WriteIndex they call.                                                *)
(*                                                                         *)
(* Numbers.  TLC's integers are 32-bit signed, while byteswritten, the     *)
(* packed index words and the file positions are unsigned 32-bit (ULONG)   *)
(* or wider.  Such a value is held as a pair <<hi, lo>> that stands for    *)
(* hi * 65536 + lo, with lo in 0..65535; a ULONG has hi in 0..65535 too.   *)
(* Plain C ints that stay below 2^31 are plain integers.                    *)
(*                                                                         *)
(* Floats.  fps is held in thousandths of a frame per second and the       *)
(* keyframe residual as an exact fraction over fps; the rounding of the C  *)
(* float arithmetic is not modelled.                                        *)
(***************************************************************************)
EXTENDS Integers, Sequences, FiniteSets, TLC

\* ---------------------------------------------------------------- bounds
\* an add that writes a frame is offered while fewer than MaxFrames frames
\* have been written
MaxFrames == 2

\* the same bound for the sessions that follow the keyframe cadence
MaxCadenceFrames == 5

\* the same bound for the sessions that outgrow the index twice
MaxLongFrames == 2001

\* WAV_WriteSamples is offered while it has been called fewer than
\* MaxWavWrites times in the session
MaxWavWrites == 4

\* a command line holds at most MaxOptions options
MaxOptions == 2

\* ------------------------------------------------- wide (pair) arithmetic
B16 == 256 * 256

W(n) == <<n \div B16, n % B16>>

WAdd(a, b) ==
  LET lo == a[2] + b[2]
  IN  <<a[1] + b[1] + (lo \div B16), lo % B16>>

WSub(a, b) ==
  LET lo == a[2] - b[2]
  IN  IF lo >= 0 THEN <<a[1] - b[1], lo>>
                 ELSE <<a[1] - b[1] - 1, lo + B16>>

WLt(a, b) == a[1] < b[1] \/ (a[1] = b[1] /\ a[2] < b[2])

WGt(a, b) == WLt(b, a)

WLe(a, b) == ~WLt(b, a)

\* truncation of a wide value to 32 bits, as an assignment to a ULONG does
U32(a) == <<a[1] % B16, a[2]>>

\* the int held by a wide value that is known to be below 2^31
WInt(a) == a[1] * B16 + a[2]

\* ------------------------------------------------------ program constants
MAX_RECORDING_SIZE == <<65520, 0>>

FRAME_INDEX_ALLOC_SIZE == 1000

\* index & VIDEO_BITMASK, with VIDEO_BITMASK 0x0003ffff
VideoField(index) == (index[1] % 4) * B16 + index[2]

\* (index & AUDIO_BITMASK) / AUDIO_BITSHIFT, with AUDIO_BITMASK 0x7ffc0000
AudioField(index) == (index[1] % 32768) \div 4

\* index & KEYFRAME_BITMASK, with KEYFRAME_BITMASK 0x80000000
KeyframeBit(index) == index[1] >= 32768

\* index | KEYFRAME_BITMASK
SetKeyframeBit(index) == IF index[1] >= 32768 THEN index ELSE <<index[1] + 32768, index[2]>>

\* AUDIO_BITSHIFT * audio_size as it lands in a ULONG: 0x40000 is 4 * 65536
AudioShifted(audio_size) == U32(<<audio_size * 4, 0>>)

\* ------------------------------------------------------------ environment
\* The build: SOUND is the preprocessor symbol that compiles the audio code
\* in; ZMBVZ stands for VIDEO_CODEC_ZMBV with HAVE_LIBZ; PNG for
\* VIDEO_CODEC_PNG.
Builds == [SOUND : BOOLEAN, ZMBVZ : {FALSE}, PNG : {FALSE}]

\* known_video_codecs; the descriptors themselves live in the codec modules
Codecs == {"MRLE", "MPNG", "ZMBV"}

\* a variant in which every codec has inter-frames
UsesInterframes_All(c) == TRUE

\* video_codec->uses_interframes: Motion-PNG has no inter-frames
UsesInterframes(c) == c # "MPNG"

\* Atari800_FPS_PAL and Atari800_FPS_NTSC, in thousandths of a frame/second
FpsOf(tv) == IF tv = "PAL" THEN 50000 ELSE 59920

\* a frame far larger than the index can describe, one that brings the
\* recording to the size limit within two frames
HugeFrame == 32760 * B16

\* what video_codec->init can return: -1 on error, else the buffer size
InitResults == {-1, HugeFrame}

\* what video_codec->frame can return: an error value, the documented -1,
\* an empty inter-frame, the largest size the 18-bit field of the index
\* holds (an odd one), and a huge frame
FrameResults == {-2, -1, 0, 262143, HugeFrame}

\* the set-up of the emulator at an open: Atari800_tv_mode, the playback
\* frequency, the number of POKEYs and the POKEYSND_BIT16 flag
Machines ==
  { [tv |-> "PAL", freq |-> 44100, pokeys |-> 1, bit16 |-> FALSE],
    [tv |-> "NTSC", freq |-> 44100, pokeys |-> 2, bit16 |-> TRUE] }

\* num_samples of a call of AVI_AddAudioSamples; the last is more than any
\* audio buffer of Machines holds
SampleCounts == {0, 1, 8192}

\* ---------------------------------------------------------------- state
VARIABLES
  build,    \* the preprocessor configuration, fixed for a run
  st,       \* the static variables of file_export.c and the file written
  lastOp,   \* the operation that returned last
  ret,      \* what it returned (1 success, 0 failure; for open 1 = a FILE*)
  hooks,    \* the hooks of video_codec it called: init, frame, end
  hist      \* what the caller did in this session (kept for the properties)

vars == <<build, st, lastOp, ret, hooks, hist>>

\* the static variables, by their names
byteswritten == st.byteswritten
frames_written == st.frames_written
samples_written == st.samples_written
current_screen_size == st.current_screen_size
current_audio_samples == st.current_audio_samples
current_is_keyframe == st.current_is_keyframe
num_streams == st.num_streams
sample_size == st.sample_size
audio_buffer_size == st.audio_buffer_size
frame_indexes == st.frame_indexes
num_frames_allocated == st.num_frames_allocated
size_riff == st.size_riff
size_movi == st.size_movi

\* a file that holds no header yet, and one that holds no idx1 chunk
NoHeader ==
  [ written |-> FALSE, size_riff |-> W(0), list_size |-> 0, frames |-> 0,
    streams |-> 0, samples |-> 0, size_movi |-> W(0), movi_pos |-> 0,
    len |-> 0 ]

NoIndex == [ written |-> FALSE, size |-> 0, entries |-> <<>>, len |-> 0 ]

\* no WAV file. Of a WAV file the model keeps whether its FILE* is open,
\* its length, the fields of its header by their offsets (riff at 4,
\* channels at 22, rate at 24, bytes_per_sec at 28, block_align at 32, bits
\* at 34, data at 40) and, for the properties, what the caller saw: sum,
\* the total of the values WAV_WriteSamples returned, calls, the number of
\* its calls, and ok, that every one of them returned a value above zero
\* and no call met an I/O error.
NoWav ==
  [ open |-> FALSE, hdr |-> FALSE, len |-> W(0), riff |-> W(0), data |-> W(0),
    channels |-> 0, rate |-> 0, bytes_per_sec |-> 0, block_align |-> 0,
    bits |-> 0, sum |-> W(0), calls |-> 0, ok |-> TRUE ]

\* no configuration file. Of a configuration file the model keeps its lines
\* and, for the properties, the options as they were when it was written.
NoSaved ==
  [ written |-> FALSE, lines |-> <<>>, codec |-> "NULL", interval |-> 0,
    level |-> 0 ]

\* no screen and no PCX file. screen holds the lines of the visible part
\* of Screen_atari, top to bottom, each video_width pixels; after holds,
\* line by line, the byte that follows the last pixel of the line in
\* memory. Of a PCX file the model keeps the fields of the header that
\* depend on the screen, the bytes of the pixel data and whether the
\* palette follows them.
NoPcx ==
  [ screen |-> <<>>, after |-> <<>>,
    file |-> [ written |-> FALSE, xmax |-> 0, ymax |-> 0, planes |-> 0,
               bytes_per_line |-> 0, data |-> <<>>, palette |-> FALSE ] ]

\* the values the statics hold when the program starts (C static
\* initialisation), and no file
InitStatics ==
  [ byteswritten |-> W(0), frames_written |-> 0, fps |-> 0,
    sample_size |-> 0, size_riff |-> W(0), size_movi |-> W(0),
    total_video_size |-> W(0), smallest_video_frame |-> W(0),
    largest_video_frame |-> W(0),
    num_frames_allocated |-> 0, frame_indexes |-> <<>>,
    frame_indexes_alloc |-> FALSE,
    video_buffer_size |-> 0, video_buffer_alloc |-> FALSE,
    current_screen_size |-> -1,
    video_codec |-> "NULL", requested_video_codec |-> "NULL",
    keyframe_interval |-> 1000, keyframe_residual |-> 0,
    compression_level |-> 6,
    current_is_keyframe |-> FALSE,
    samples_written |-> 0, audio_buffer_size |-> 0,
    audio_buffer_alloc |-> FALSE, current_audio_samples |-> -1,
    num_streams |-> 0,
    \* the bytes of audio_buffer that the last memcpy into it laid down
    audio_buffer_len |-> 0,
    \* the file behind the FILE* of the WAV session
    wav |-> NoWav,
    \* the configuration file File_Export_WriteConfig wrote last
    saved |-> NoSaved,
    \* the screen handed to PCX_SaveScreen and the file it wrote
    pcx |-> NoPcx,
    \* the file behind the FILE* of the session
    fp_open |-> FALSE, fpos |-> W(0), flen |-> W(0),
    header |-> NoHeader, chunks |-> <<>>, idx1 |-> NoIndex,
    \* the keyframe argument of the last video_codec->frame call
    want_keyframe |-> FALSE,
    \* the codec behind video_codec: live from an init that succeeded to
    \* the end that follows it; misused once a hook was called out of
    \* that order (init while live, frame or end while not live)
    codec_live |-> FALSE, codec_misused |-> FALSE ]

\* hist: the adds of the session so far. While clean, every call kept to
\* the calling order of the session (video and audio in turn in a two-stream
\* session, video alone in a video-only one), every batch held a sample
\* and fitted the audio buffer, the codec and the file system reported no
\* error and no earlier
\* add had failed; nVideo, nAudio and sum then count the calls and the
\* samples handed over. codecErr: video_codec->frame has returned a
\* negative value. ioFailed: a write to the file was cut short; the
\* model lets the file system do that once in a session. An open that gets
\* no file starts no session and leaves the file of the last one, and
\* ioFailed with it, as they were. overBatch: whether a batch larger than
\* audio_buffer was handed to AVI_AddAudioSamples in this session, by the
\* call that returned last ("last") or by one before it ("earlier").
NoHist ==
  [ nVideo |-> 0, nAudio |-> 0, sum |-> 0, last |-> "none", clean |-> TRUE,
    codecErr |-> FALSE, ioFailed |-> FALSE, overBatch |-> "none" ]

Init ==
  /\ build \in Builds
  /\ st = InitStatics
  /\ lastOp = "none"
  /\ ret = 1
  /\ hooks = {}
  /\ hist = NoHist

\* ------------------------------------------------------------------ text
\* A C string is held as the sequence of its characters, each a string of
\* length one.
Digits == <<"0", "1", "2", "3", "4", "5", "6", "7", "8", "9">>

LowerCase ==
  <<"a", "b", "c", "d", "e", "f", "g", "h", "i", "j", "k", "l", "m",
    "n", "o", "p", "q", "r", "s", "t", "u", "v", "w", "x", "y", "z">>

UpperCase ==
  <<"A", "B", "C", "D", "E", "F", "G", "H", "I", "J", "K", "L", "M",
    "N", "O", "P", "Q", "R", "S", "T", "U", "V", "W", "X", "Y", "Z">>

\* the place of a character in a sequence of characters, 0 if it has none
Place(ch, chars) ==
  IF \E i \in 1..Len(chars) : chars[i] = ch
  THEN CHOOSE i \in 1..Len(chars) : chars[i] = ch
  ELSE 0

\* a variant that tells the cases of the letters apart
FoldCase_Exact(word) == word

\* what Util_stricmp compares: the word with its letters in one case
FoldCase(word) ==
  [ i \in 1..Len(word) |->
      IF Place(word[i], LowerCase) > 0
      THEN UpperCase[Place(word[i], LowerCase)] ELSE word[i] ]

\* Util_stricmp(a, b) == 0
Util_stricmp(a, b) == FoldCase(a) = FoldCase(b)

\* Util_sscandec: the value of a string of decimal digits, -1 for an empty
\* string and for one that holds any other character
RECURSIVE ScanDigits(_, _, _)
ScanDigits(word, i, result) ==
  IF i > Len(word) THEN result
  ELSE IF Place(word[i], Digits) > 0
       THEN ScanDigits(word, i + 1, 10 * result + (Place(word[i], Digits) - 1))
       ELSE -1

Util_sscandec(word) == IF word = <<>> THEN -1 ELSE ScanDigits(word, 1, 0)

\* the conversion %d of fprintf
RECURSIVE DecimalDigits(_)
DecimalDigits(n) ==
  IF n < 10 THEN <<Digits[n + 1]>>
  ELSE Append(DecimalDigits(n \div 10), Digits[(n % 10) + 1])

Decimal(n) == IF n < 0 THEN <<"-">> \o DecimalDigits(-n) ELSE DecimalDigits(n)

\* ------------------------------------------------- File_Export_ReadConfig
\* known_video_codecs of the build, in the order of the table
known_video_codecs(b) ==
  <<"MRLE">> \o (IF b.PNG THEN <<"MPNG">> ELSE <<>>)
             \o (IF b.ZMBVZ THEN <<"ZMBV">> ELSE <<>>)

\* codec_id of a codec of the table
codec_id(c) ==
  CASE c = "MRLE" -> <<"r", "l", "e">>
    [] c = "MPNG" -> <<"p", "n", "g">>
    [] c = "ZMBV" -> <<"z", "m", "b", "v">>

\* the values of VIDEO_CODEC the model reads
CodecWords ==
  { <<"a", "u", "t", "o">>, <<"R", "l", "e">>, <<"p", "n", "g">>,
    <<"z", "m", "b", "v">>, <<"n", "o", "n", "e">> }

\* the first codec of the table whose codec_id is the word, or NULL
RECURSIVE MatchFrom(_, _, _)
MatchFrom(v, i, id) ==
  IF i > Len(v) THEN "NULL"
  ELSE IF Util_stricmp(id, codec_id(v[i])) THEN v[i]
  ELSE MatchFrom(v, i + 1, id)

match_video_codec(b, id) == MatchFrom(known_video_codecs(b), 1, id)

\* the values of VIDEO_CODEC_KEYFRAME_INTERVAL the model reads, in ms:
\* one that is refused, the smallest, the frame period of PAL and one
\* between one and two frame periods
IntervalValues == { <<"0">>, <<"1">>, <<"2", "0">>, <<"3", "0">> }

\* HAVE_LIBPNG or HAVE_LIBZ: the build has a compression level
HaveCompression(b) == b.PNG \/ b.ZMBVZ

\* one line of the configuration file: string is its key, ptr its value
File_Export_ReadConfig(b, s, string, ptr) ==
  IF string = "VIDEO_CODEC"
  THEN IF Util_stricmp(ptr, <<"a", "u", "t", "o">>)
       THEN [ s |-> [s EXCEPT !.requested_video_codec = "NULL"], ret |-> 1 ]
       ELSE LET found == match_video_codec(b, ptr)
            IN  [ s |-> [s EXCEPT !.requested_video_codec = found],
                  ret |-> IF found = "NULL" THEN 0 ELSE 1 ]
  ELSE IF string = "VIDEO_CODEC_KEYFRAME_INTERVAL"
  THEN LET num == Util_sscandec(ptr)
       IN  IF num > 0
           THEN [ s |-> [s EXCEPT !.keyframe_interval = num], ret |-> 1 ]
           ELSE [ s |-> s, ret |-> 0 ]
  ELSE IF string = "COMPRESSION_LEVEL" /\ HaveCompression(b)
  THEN LET num == Util_sscandec(ptr)
       IN  IF num >= 0 /\ num <= 9
           THEN [ s |-> [s EXCEPT !.compression_level = num], ret |-> 1 ]
           ELSE [ s |-> s, ret |-> 0 ]
  ELSE [ s |-> s, ret |-> 0 ]

\* ------------------------------------------------ File_Export_WriteConfig
\* the lines written, each a key and a value
File_Export_WriteConfig(b, s) ==
  << <<"VIDEO_CODEC",
       IF s.requested_video_codec = "NULL" THEN <<"A", "U", "T", "O">>
       ELSE codec_id(s.requested_video_codec)>>,
     <<"VIDEO_CODEC_KEYFRAME_INTERVAL", Decimal(s.keyframe_interval)>> >>
  \o (IF HaveCompression(b)
      THEN << <<"COMPRESSION_LEVEL", Decimal(s.compression_level)>> >>
      ELSE <<>>)

\* ------------------------------------------------ File_Export_Initialise
\* One option of the command line: name is argv[i]; has_arg tells whether
\* a word follows it, and arg is that word.
Option(name, has_arg, arg) == [ name |-> name, has_arg |-> has_arg, arg |-> arg ]

\* the body of the loop for one option; ok = FALSE: the function returns
\* FALSE there
InitialiseOption(b, s, o) ==
  IF o.name = "-videocodec"
  THEN IF o.has_arg
       THEN IF o.arg = <<"a", "u", "t", "o">>
            THEN [ s |-> [s EXCEPT !.requested_video_codec = "NULL"], ok |-> TRUE ]
            ELSE LET found == match_video_codec(b, o.arg)
                 IN  [ s |-> [s EXCEPT !.requested_video_codec = found],
                       ok |-> found # "NULL" ]
       ELSE [ s |-> s, ok |-> FALSE ]
  ELSE IF o.name = "-keyframe-interval"
  THEN IF o.has_arg
       THEN LET num == Util_sscandec(o.arg)
            IN  [ s |-> [s EXCEPT !.keyframe_interval = num], ok |-> ~(num < 1) ]
       ELSE [ s |-> s, ok |-> FALSE ]
  ELSE IF o.name = "-compression-level" /\ HaveCompression(b)
  THEN IF o.has_arg
       THEN LET num == Util_sscandec(o.arg)
            IN  [ s |-> [s EXCEPT !.compression_level = num],
                  ok |-> ~(num < 0 \/ num > 9) ]
       ELSE [ s |-> s, ok |-> FALSE ]
  ELSE [ s |-> s, ok |-> TRUE ]

\* the options of the command line from the i-th on, in order, up to the
\* first that makes the function return FALSE
RECURSIVE InitialiseFrom(_, _, _, _)
InitialiseFrom(b, s, argv, i) ==
  IF i > Len(argv) THEN [ s |-> s, ret |-> 1 ]
  ELSE LET o == InitialiseOption(b, s, argv[i])
       IN  IF o.ok THEN InitialiseFrom(b, o.s, argv, i + 1)
                   ELSE [ s |-> o.s, ret |-> 0 ]

File_Export_Initialise(b, s, argv) == InitialiseFrom(b, s, argv, 1)

\* -------------------------------------------------------- AVI_WriteHeader
\* the hdrl list length the header declares
ListSize(streams) ==
  4 + 8 + 56 + (12 + (8 + 56 + 8 + 40 + 256 * 4 + 8 + 16))
    + (IF streams = 2 THEN 12 + (8 + 56 + 8 + 18 + 8 + 12) ELSE 0)

\* the bytes the calls of fputs, fputl, fputw, fwrite and fputc lay down
\* before the movi LIST: RIFF, hdrl, avih, the video strl and, in a build
\* with SOUND and two streams, the audio strl
HeaderBytes(b, streams) ==
  (4 + 4 + 4) + (4 + 4 + 4) + (8 + 14 * 4)
    + (4 + 4 + 4) + (8 + 4 + 4 + 4 + 2 + 2 + 10 * 4)
    + (8 + 3 * 4 + 2 + 2 + 4 + 5 * 4 + 256 * 4) + (8 + 14 + 1 + 1)
    + (IF b.SOUND /\ streams = 2
       THEN (4 + 4 + 4) + (8 + 4 + 4 + 4 + 2 + 2 + 10 * 4)
            + (8 + 2 + 2 + 4 + 4 + 2 + 2 + 2) + (8 + 11 + 1)
       ELSE 0)

WMax(a, b) == IF WLt(a, b) THEN b ELSE a

\* a variant that writes the frame count of the open, zero, again
AVI_WriteHeader_NoCounts(b, s, io) ==
  LET list_size == ListSize(s.num_streams)
      movi_pos  == HeaderBytes(b, s.num_streams) + 4 + 4
      end       == IF io THEN movi_pos + 4 ELSE movi_pos + 3
      hdr == [ written |-> TRUE, size_riff |-> s.size_riff,
               list_size |-> list_size, frames |-> 0,
               streams |-> s.num_streams, samples |-> 0,
               size_movi |-> s.size_movi, movi_pos |-> movi_pos,
               len |-> end ]
  IN  [ s |-> [s EXCEPT !.header = hdr, !.size_movi = W(movi_pos),
                        !.fpos = W(end), !.flen = WMax(s.flen, W(end))],
        ok |-> (end = 12 + 8 + list_size + 12) ]

\* a variant that counts the audio stream once a frame has been written
AVI_WriteHeader_StreamsLate(b, s, io) ==
  LET streams   == IF s.frames_written > 0 THEN 2 ELSE 1
      list_size == ListSize(streams)
      movi_pos  == HeaderBytes(b, streams) + 4 + 4
      end       == IF io THEN movi_pos + 4 ELSE movi_pos + 3
      hdr == [ written |-> TRUE, size_riff |-> s.size_riff,
               list_size |-> list_size, frames |-> s.frames_written,
               streams |-> s.num_streams, samples |-> s.samples_written,
               size_movi |-> s.size_movi, movi_pos |-> movi_pos,
               len |-> end ]
  IN  [ s |-> [s EXCEPT !.header = hdr, !.size_movi = W(movi_pos),
                        !.fpos = W(end), !.flen = WMax(s.flen, W(end))],
        ok |-> (end = 12 + 8 + list_size + 12) ]

\* Rewinds, writes the header with the current size_riff, size_movi,
\* frames_written and samples_written and leaves in size_movi the position
\* of the 'movi' FourCC. io = FALSE: the last byte could not be written.
AVI_WriteHeader(b, s, io) ==
  LET list_size == ListSize(s.num_streams)
      movi_pos  == HeaderBytes(b, s.num_streams) + 4 + 4
      end       == IF io THEN movi_pos + 4 ELSE movi_pos + 3
      hdr == [ written |-> TRUE, size_riff |-> s.size_riff,
               list_size |-> list_size, frames |-> s.frames_written,
               streams |-> s.num_streams, samples |-> s.samples_written,
               size_movi |-> s.size_movi, movi_pos |-> movi_pos,
               len |-> end ]
  IN  [ s |-> [s EXCEPT !.header = hdr, !.size_movi = W(movi_pos),
                        !.fpos = W(end), !.flen = WMax(s.flen, W(end))],
        ok |-> (end = 12 + 8 + list_size + 12) ]

\* a variant that leaves the keyframe bit out of the index word
PackIndex_NoKeyframeBit(b, screen_size, audio_size, is_keyframe) ==
  IF b.SOUND
  THEN U32(WAdd(W(screen_size), AudioShifted(audio_size)))
  ELSE W(screen_size)

\* --------------------------------------------------------- AVI_WriteFrame
\* the packed index word of a frame
PackIndex(b, screen_size, audio_size, is_keyframe) ==
  LET sum == IF b.SOUND
             THEN U32(WAdd(W(screen_size), AudioShifted(audio_size)))
             ELSE W(screen_size)
  IN  IF is_keyframe THEN SetKeyframeBit(sum) ELSE sum

\* a variant that stops the recording ten blocks of 64K later
OverLimit_Later(bw) == WGt(bw, <<65530, 0>>)

\* byteswritten > MAX_RECORDING_SIZE
OverLimit(bw) == WGt(bw, MAX_RECORDING_SIZE)

\* a variant that asks for no keyframe after the first
NextKeyframe_NoCadence(s) ==
  IF UsesInterframes(s.video_codec)
  THEN [key |-> FALSE, residual |-> s.keyframe_residual + 1000000]
  ELSE [key |-> TRUE, residual |-> s.keyframe_residual]

\* the keyframe cadence: the flag of the next frame and the new residual.
\* The residual is held as residual * fps, so 1000.0 / fps is 1000000.
NextKeyframe(s) ==
  IF UsesInterframes(s.video_codec)
  THEN LET r == s.keyframe_residual + 1000000
           k == s.keyframe_interval * s.fps
       IN  IF r > k THEN [key |-> TRUE, residual |-> r - (r \div k) * k]
                    ELSE [key |-> FALSE, residual |-> r]
  ELSE [key |-> TRUE, residual |-> s.keyframe_residual]

\* a variant that grows the index once frames_written has passed it
GrowIndex_WhenPast(frames, allocated) ==
  IF frames > allocated THEN allocated + FRAME_INDEX_ALLOC_SIZE ELSE allocated

\* if (frames_written >= num_frames_allocated)
\*   num_frames_allocated += FRAME_INDEX_ALLOC_SIZE
GrowIndex(frames, allocated) ==
  IF frames >= allocated THEN allocated + FRAME_INDEX_ALLOC_SIZE ELSE allocated

\* a variant that counts the bytes of the frame only
FrameBytes_NoIndex(frame_size) == frame_size

\* byteswritten += frame_size + 32: the frame and its part of the index
FrameBytes(frame_size) == frame_size + 32

\* a variant that never pads
Padding_None(size) == 0

\* video_padding and audio_padding: chunks are word-aligned
Padding(size) == size % 2

\* Writes the pending video frame and, with two streams, the pending audio
\* as one 00dc and one 01wb chunk, records the frame in frame_indexes and
\* resets both sentinels. io = FALSE: the last byte could not be written.
AVI_WriteFrame(b, s, io) ==
  LET two == b.SOUND /\ s.num_streams = 2
      video_padding == Padding(s.current_screen_size)
      audio_size == IF two THEN s.current_audio_samples * s.sample_size ELSE 0
      audio_padding == Padding(audio_size)
      vlen == 8 + s.current_screen_size + video_padding
      alen == 8 + audio_size + audio_padding
      expected_frame_size == vlen + (IF two THEN alen ELSE 0)
      short == IF io THEN 0 ELSE 1
      frame_size == expected_frame_size - short
      vchunk == [ tag |-> "00dc", size |-> s.current_screen_size,
                  pos |-> s.fpos, samples |-> 0,
                  len |-> IF two THEN vlen ELSE vlen - short,
                  want_keyframe |-> s.want_keyframe ]
      achunk == [ tag |-> "01wb", size |-> audio_size,
                  pos |-> WAdd(s.fpos, W(vlen)),
                  samples |-> s.current_audio_samples,
                  len |-> alen - short, want_keyframe |-> TRUE ]
      frames == s.frames_written + 1
      bw == U32(WAdd(s.byteswritten, W(FrameBytes(frame_size))))
      css == W(s.current_screen_size)
      kf == NextKeyframe(s)
      end == WAdd(s.fpos, W(frame_size))
      result == IF frame_size = expected_frame_size THEN 1 ELSE 0
  IN  [ s |-> [s EXCEPT
          !.chunks = IF two THEN s.chunks \o <<vchunk, achunk>>
                            ELSE Append(s.chunks, vchunk),
          !.fpos = end, !.flen = WMax(s.flen, end),
          !.samples_written = IF two THEN s.samples_written + s.current_audio_samples
                                     ELSE s.samples_written,
          !.frame_indexes = Append(s.frame_indexes,
              PackIndex(b, s.current_screen_size, audio_size, s.current_is_keyframe)),
          !.frames_written = frames,
          !.num_frames_allocated = GrowIndex(frames, s.num_frames_allocated),
          !.byteswritten = bw,
          !.total_video_size = U32(WAdd(s.total_video_size, css)),
          !.smallest_video_frame = IF WLt(css, s.smallest_video_frame)
                                   THEN css ELSE s.smallest_video_frame,
          !.largest_video_frame = IF WGt(css, s.largest_video_frame)
                                  THEN css ELSE s.largest_video_frame,
          !.current_is_keyframe = kf.key,
          !.keyframe_residual = kf.residual,
          !.current_screen_size = -1,
          !.current_audio_samples = IF b.SOUND THEN -1 ELSE s.current_audio_samples],
        result |-> IF OverLimit(bw) THEN 0 ELSE result ]

\* --------------------------------------------------------- AVI_WriteIndex
\* size + 8 + (size % 2): what a chunk of that size takes in the file
ChunkSpan(size) == size + 8 + (size % 2)

\* the 16-byte entries of idx1 for frames i.. of the index, offset being the
\* offset of frame i from the 'movi' FourCC
RECURSIVE IndexEntries(_, _, _, _)
IndexEntries(b, fi, i, offset) ==
  IF i > Len(fi) THEN <<>>
  ELSE LET index == fi[i]
           vsize == VideoField(index)
           asize == AudioField(index)
           aoff  == offset + ChunkSpan(vsize)
           ventry == [ tag |-> "00dc",
                       flags |-> IF KeyframeBit(index) THEN 16 ELSE 0,
                       offset |-> offset, size |-> vsize ]
           aentry == [ tag |-> "01wb", flags |-> 16,
                       offset |-> aoff, size |-> asize ]
       IN  IF b.SOUND
           THEN <<ventry, aentry>>
                  \o IndexEntries(b, fi, i + 1, aoff + ChunkSpan(asize))
           ELSE <<ventry>> \o IndexEntries(b, fi, i + 1, aoff)

\* the size field of idx1
IndexSize(b, frames) == IF b.SOUND THEN frames * 16 * 2 ELSE frames * 16

\* a variant that writes an empty idx1 chunk for an empty index
AVI_WriteIndex_AcceptsEmpty(b, s, io) ==
  LET index_size == IndexSize(b, s.frames_written)
      entries == IndexEntries(b, s.frame_indexes, 1, 4)
      chunk_size == 8 + 16 * Len(entries) - (IF io THEN 0 ELSE 1)
      end == WAdd(s.fpos, W(chunk_size))
  IN  [ s |-> [s EXCEPT
            !.idx1 = [ written |-> TRUE, size |-> index_size,
                       entries |-> entries, len |-> chunk_size ],
            !.fpos = end, !.flen = WMax(s.flen, end)],
        ok |-> (chunk_size = 8 + index_size) ]

\* Writes the idx1 chunk from frame_indexes; refuses an empty index.
\* io = FALSE: the last byte could not be written.
AVI_WriteIndex(b, s, io) ==
  IF s.frames_written = 0 THEN [ s |-> s, ok |-> FALSE ]
  ELSE LET index_size == IndexSize(b, s.frames_written)
           entries == IndexEntries(b, s.frame_indexes, 1, 4)
           chunk_size == 8 + 16 * Len(entries) - (IF io THEN 0 ELSE 1)
           end == WAdd(s.fpos, W(chunk_size))
       IN  [ s |-> [s EXCEPT
                 !.idx1 = [ written |-> TRUE, size |-> index_size,
                            entries |-> entries, len |-> chunk_size ],
                 !.fpos = end, !.flen = WMax(s.flen, end)],
             ok |-> (chunk_size = 8 + index_size) ]

\* ----------------------------------------------------------- AVI_OpenFile
get_best_video_codec(b) == IF b.ZMBVZ THEN "ZMBV" ELSE "MRLE"

\* the codec an open uses
SelectCodec(b, s) ==
  IF s.video_codec = "NULL"
  THEN IF s.requested_video_codec = "NULL" THEN get_best_video_codec(b)
                                           ELSE s.requested_video_codec
  ELSE s.video_codec

\* (int)(POKEYSND_playback_freq * POKEYSND_num_pokeys * sample_size / fps) + 1024
AudioBufferSize(cfg, ssize, fps) ==
  ((cfg.freq * cfg.pokeys * ssize * 1000) \div fps) + 1024

\* a variant in which the end hook is not called
CodecEnd_NotCalled(s) == s

\* video_codec->end is called
CodecEnd(s) ==
  [s EXCEPT !.codec_live = FALSE, !.codec_misused = @ \/ ~s.codec_live]

\* fopen_ok: fopen gave a file; cfg: the TV mode and the POKEY set-up;
\* sound_enabled: Sound_enabled; init_result: what video_codec->init
\* returns; io: whether the header could be written in full.
AVI_OpenFile(b, s0, fopen_ok, cfg, sound_enabled, init_result, io) ==
  IF ~fopen_ok THEN [ s |-> s0, ok |-> FALSE, hooks |-> {} ]
  ELSE
    LET s1 == [s0 EXCEPT
                 !.fp_open = TRUE, !.fpos = W(0), !.flen = W(0),
                 !.header = NoHeader, !.chunks = <<>>, !.idx1 = NoIndex,
                 !.want_keyframe = FALSE,
                 !.size_riff = W(0), !.size_movi = W(0),
                 !.frames_written = 0, !.keyframe_residual = 0,
                 !.current_is_keyframe = TRUE, !.current_screen_size = -1,
                 !.fps = FpsOf(cfg.tv),
                 !.num_frames_allocated = FRAME_INDEX_ALLOC_SIZE,
                 !.frame_indexes = <<>>, !.frame_indexes_alloc = TRUE,
                 !.video_codec = SelectCodec(b, s0),
                 !.video_buffer_size = init_result,
                 !.codec_live = (init_result >= 0),
                 !.codec_misused = @ \/ s0.codec_live]
    IN  IF init_result < 0
        THEN [ s |-> [s1 EXCEPT !.fp_open = FALSE], ok |-> FALSE,
               hooks |-> {"init"} ]
        ELSE
          LET ssize == IF cfg.bit16 THEN 2 ELSE 1
              s2 == IF ~b.SOUND
                    THEN [s1 EXCEPT !.video_buffer_alloc = TRUE, !.num_streams = 1]
                    ELSE IF sound_enabled
                    THEN [s1 EXCEPT
                            !.video_buffer_alloc = TRUE,
                            !.current_audio_samples = -1, !.samples_written = 0,
                            !.num_streams = 2, !.sample_size = ssize,
                            !.audio_buffer_size = AudioBufferSize(cfg, ssize, s1.fps),
                            !.audio_buffer_alloc = TRUE, !.audio_buffer_len = 0]
                    ELSE [s1 EXCEPT
                            !.video_buffer_alloc = TRUE,
                            !.current_audio_samples = -1, !.samples_written = 0,
                            !.num_streams = 1, !.sample_size = 0,
                            !.audio_buffer_size = 0, !.audio_buffer_alloc = FALSE]
              h == AVI_WriteHeader(b, s2, io)
          IN  IF ~h.ok
              THEN [ s |-> CodecEnd([h.s EXCEPT !.fp_open = FALSE]),
                     ok |-> FALSE, hooks |-> {"init", "end"} ]
              ELSE [ s |-> [h.s EXCEPT
                              !.byteswritten = U32(WAdd(h.s.fpos, W(8))),
                              !.total_video_size = W(0),
                              !.smallest_video_frame = <<65535, 65535>>,
                              !.largest_video_frame = W(0)],
                     ok |-> TRUE, hooks |-> {"init"} ]

\* a variant that lets a video add flush only over a batch of two samples
\* or more
VideoMayFlush_TwoSamples(b, s) ==
  (~b.SOUND) \/ s.num_streams = 1 \/ s.current_audio_samples > 1

\* ------------------------------------------------------ AVI_AddVideoFrame
\* the test that lets AVI_AddVideoFrame flush the pending frame
VideoMayFlush(b, s) ==
  (~b.SOUND) \/ s.num_streams = 1 \/ s.current_audio_samples > 0

\* either sentinel holds an error value
Poisoned(b, s) ==
  s.current_screen_size < -1 \/ (b.SOUND /\ s.current_audio_samples < -1)

\* video_codec->frame is called with current_is_keyframe and returns r
EncodeFrame(s, r) ==
  [ s |-> [s EXCEPT !.current_screen_size = r,
                    !.want_keyframe = s.current_is_keyframe,
                    !.codec_misused = @ \/ ~s.codec_live],
    ret |-> IF r >= 0 THEN 1 ELSE 0, hooks |-> {"frame"} ]

\* a variant that goes on to encode whatever the flush returned
AVI_AddVideoFrame_IgnoresFlush(b, s, r, io) ==
  IF s.current_screen_size >= 0
  THEN IF VideoMayFlush(b, s)
       THEN EncodeFrame(AVI_WriteFrame(b, s, io).s, r)
       ELSE [ s |-> s, ret |-> 0, hooks |-> {} ]
  ELSE IF Poisoned(b, s) THEN [ s |-> s, ret |-> 0, hooks |-> {} ]
  ELSE EncodeFrame(s, r)


AVI_AddVideoFrame(b, s, r, io) ==
  IF s.current_screen_size >= 0
  THEN IF VideoMayFlush(b, s)
       THEN LET w == AVI_WriteFrame(b, s, io)
            IN  IF w.result = 0 THEN [ s |-> w.s, ret |-> 0, hooks |-> {} ]
                                ELSE EncodeFrame(w.s, r)
       ELSE [ s |-> s, ret |-> 0, hooks |-> {} ]
  ELSE IF Poisoned(b, s) THEN [ s |-> s, ret |-> 0, hooks |-> {} ]
  ELSE EncodeFrame(s, r)

\* ---------------------------------------------------- AVI_AddAudioSamples
\* a variant that refuses a batch that is too large and sets no error value
TakeSamples_NoErrorValue(s, num_samples) ==
  LET size == num_samples * s.sample_size
  IN  IF size > s.audio_buffer_size
      THEN [ s |-> s, ret |-> 0 ]
      ELSE [ s |-> [s EXCEPT !.current_audio_samples = num_samples,
                             !.audio_buffer_len = size], ret |-> 1 ]

\* the batch is taken into audio_buffer, or refused as too large
TakeSamples(s, num_samples) ==
  LET size == num_samples * s.sample_size
  IN  IF size > s.audio_buffer_size
      THEN [ s |-> [s EXCEPT !.current_audio_samples = -2], ret |-> 0 ]
      ELSE [ s |-> [s EXCEPT !.current_audio_samples = num_samples,
                             !.audio_buffer_len = size], ret |-> 1 ]

\* a variant that takes a batch over a pending one when no video is pending
AVI_AddAudioSamples_Overwrites(b, s, num_samples, io) ==
  IF s.current_audio_samples >= 0 /\ s.current_screen_size >= 0
  THEN LET w == AVI_WriteFrame(b, s, io)
       IN  IF w.result = 0 THEN [ s |-> w.s, ret |-> 0 ]
                           ELSE TakeSamples(w.s, num_samples)
  ELSE IF s.current_screen_size < -1 \/ s.current_audio_samples < -1
       THEN [ s |-> s, ret |-> 0 ]
  ELSE TakeSamples(s, num_samples)


AVI_AddAudioSamples(b, s, num_samples, io) ==
  IF s.current_audio_samples >= 0
  THEN IF s.current_screen_size >= 0
       THEN LET w == AVI_WriteFrame(b, s, io)
            IN  IF w.result = 0 THEN [ s |-> w.s, ret |-> 0 ]
                                ELSE TakeSamples(w.s, num_samples)
       ELSE [ s |-> s, ret |-> 0 ]
  ELSE IF s.current_screen_size < -1 \/ s.current_audio_samples < -1
       THEN [ s |-> s, ret |-> 0 ]
  ELSE TakeSamples(s, num_samples)

\* ---------------------------------------------------------- AVI_CloseFile
\* a variant that asks for a pending video frame only
FinalFramePending_VideoOnly(b, s) == s.current_screen_size >= 0

\* a final frame is pending and is written out by the close
FinalFramePending(b, s) ==
  s.current_screen_size >= 0 /\ (b.SOUND => s.current_audio_samples >= 0)

\* size_movi = ftell(fp) - size_movi: the movi payload ends here
MoviSize(s) == U32(WSub(s.fpos, s.size_movi))

\* a variant that takes the whole file for the RIFF payload
RiffSize_WholeFile(s) == U32(s.fpos)

\* size_riff = ftell(fp) - 8
RiffSize(s) == U32(WSub(s.fpos, W(8)))

\* a variant that keeps the audio buffer and the index
ReleaseSession_KeepsBuffers(b, s) ==
  [CodecEnd(s) EXCEPT
     !.fp_open = FALSE,
     !.video_buffer_alloc = FALSE, !.video_buffer_size = 0,
     !.current_screen_size = -1,
     !.current_audio_samples = IF b.SOUND THEN -1 ELSE @]

\* the tail of AVI_CloseFile: fclose, the audio buffer (in a build with
\* SOUND), video_codec->end, the video buffer and the index
ReleaseSession(b, s) ==
  LET s1 == [CodecEnd(s) EXCEPT
               !.fp_open = FALSE,
               !.video_buffer_alloc = FALSE, !.video_buffer_size = 0,
               !.current_screen_size = -1,
               !.frame_indexes = <<>>, !.frame_indexes_alloc = FALSE,
               !.num_frames_allocated = 0]
  IN  IF b.SOUND
      THEN [s1 EXCEPT !.audio_buffer_alloc = FALSE,
                      !.audio_buffer_size = 0, !.audio_buffer_len = 0,
                      !.current_audio_samples = -1]
      ELSE s1

\* fail names the step whose last byte could not be written, if any
AVI_CloseFile(b, s, fail) ==
  LET w  == IF FinalFramePending(b, s)
            THEN AVI_WriteFrame(b, s, fail # "frame")
            ELSE [ s |-> s, result |-> 1 ]
      x  == IF w.result > 0
            THEN AVI_WriteIndex(b, [w.s EXCEPT !.size_movi = MoviSize(w.s)],
                                fail # "index")
            ELSE [ s |-> w.s, ok |-> FALSE ]
      h  == IF x.ok
            THEN AVI_WriteHeader(b, [x.s EXCEPT !.size_riff = RiffSize(x.s)],
                                 fail # "header")
            ELSE [ s |-> x.s, ok |-> FALSE ]
  IN  [ s |-> ReleaseSession(b, h.s),
        ret |-> IF h.ok THEN 1 ELSE 0, hooks |-> {"end"} ]

\* --------------------------------------------------------- PCX_SaveScreen
\* a variant that writes the count byte for runs of two and more only
PcxEmit_RunsOnly(count, last) ==
  IF count > 193 THEN <<count, last>> ELSE <<last>>

\* if (count > 0xc1 || last >= 0xc0) fputc(count, fp); fputc(last, fp);
PcxEmit(count, last) ==
  IF count > 193 \/ last >= 192 THEN <<count, last>> ELSE <<last>>

\* *ptr1 with ptr1 x pixels into the line: a pixel of the line, or the byte
\* after it
PixelAt(line, after, x) == IF x < Len(line) THEN line[x + 1] ELSE after

\* the inner do-while: from count and x it steps over the pixels equal to
\* last and gives the count byte and the x it ends with
RECURSIVE PcxRun(_, _, _, _, _)
PcxRun(line, after, last, count, x) ==
  IF last = PixelAt(line, after, x + 1) /\ count + 1 < 255 /\ x + 1 < Len(line)
  THEN PcxRun(line, after, last, count + 1, x + 1)
  ELSE [ count |-> count + 1, x |-> x + 1 ]

\* the outer do-while: the bytes written for a line from pixel x on
RECURSIVE PcxLine(_, _, _)
PcxLine(line, after, x) ==
  LET last == PixelAt(line, after, x)
      run == PcxRun(line, after, last, 192, x)
  IN  PcxEmit(run.count, last)
        \o (IF run.x < Len(line) THEN PcxLine(line, after, run.x) ELSE <<>>)

\* the loop over y, for a screen that is not interlaced
RECURSIVE PcxLines(_, _, _)
PcxLines(screen, after, y) ==
  IF y > Len(screen) THEN <<>>
  ELSE PcxLine(screen[y], after[y], 0) \o PcxLines(screen, after, y + 1)

\* PCX_SaveScreen with ptr2 = NULL: the header, the pixel data and the
\* palette; video_width and video_height are those of the screen
PCX_SaveScreen(screen, after) ==
  [ written |-> TRUE,
    xmax |-> Len(screen[1]) - 1, ymax |-> Len(screen) - 1, planes |-> 1,
    bytes_per_line |-> Len(screen[1]),
    data |-> PcxLines(screen, after, 1), palette |-> TRUE ]

\* ----------------------------------------------------------- WAV_OpenFile
\* the set-ups a sound file is opened in: mono and stereo, 8 and 16 bits
WavMachines ==
  [ tv : {"PAL", "NTSC"}, freq : {44100}, pokeys : {1, 2}, bit16 : BOOLEAN ]

\* io = FALSE: the last byte of the header could not be written
WAV_OpenFile(s, fopen_ok, cfg, io) ==
  IF ~fopen_ok THEN [ s |-> s, ok |-> FALSE ]
  ELSE
    LET ssize == IF cfg.bit16 THEN 2 ELSE 1
        file == [ open |-> TRUE, hdr |-> TRUE,
                  len |-> IF io THEN W(44) ELSE W(43),
                  riff |-> W(0), data |-> W(0),
                  channels |-> cfg.pokeys, rate |-> cfg.freq,
                  bytes_per_sec |-> cfg.freq * ssize,
                  block_align |-> cfg.pokeys * ssize,
                  bits |-> ssize * 8, sum |-> W(0), calls |-> 0, ok |-> io ]
        s1 == [s EXCEPT !.sample_size = ssize, !.frames_written = 0,
                        !.fps = FpsOf(cfg.tv), !.wav = file]
    IN  IF file.len # W(44)
        THEN [ s |-> [s1 EXCEPT !.wav.open = FALSE], ok |-> FALSE ]
        ELSE [ s |-> [s1 EXCEPT !.byteswritten = W(0)], ok |-> TRUE ]

\* ------------------------------------------------------- WAV_WriteSamples
\* nmemb elements of size bytes each, nmemb being a wide value
ElementBytes(nmemb, size) ==
  IF size = 0 THEN W(0) ELSE IF size = 1 THEN nmemb ELSE WAdd(nmemb, nmemb)

\* result *= sample_size
WavResult(num_samples, size) == ElementBytes(num_samples, size)

\* num_samples is a wide value. io = FALSE: fwrite wrote one element less.
\* An fwrite of elements of no size writes none.
WAV_WriteSamples(s, num_samples, io) ==
  IF num_samples = W(0)
  THEN [ s |-> [s EXCEPT !.wav.calls = @ + 1, !.wav.ok = FALSE], ret |-> W(0) ]
  ELSE
    LET written == IF s.sample_size = 0 THEN W(0)
                   ELSE IF io THEN num_samples ELSE WSub(num_samples, W(1))
        result == IF written # num_samples THEN W(0)
                  ELSE WavResult(num_samples, s.sample_size)
        bw == U32(WAdd(s.byteswritten, result))
        returned == IF OverLimit(bw) THEN W(0) ELSE result
    IN  [ s |-> [s EXCEPT
                   !.byteswritten = bw,
                   !.frames_written = @ + 1,
                   !.wav.len = WAdd(@, ElementBytes(written, s.sample_size)),
                   !.wav.sum = WAdd(@, returned), !.wav.calls = @ + 1,
                   !.wav.ok = @ /\ io /\ returned # W(0)],
          ret |-> returned ]

\* ---------------------------------------------------------- WAV_CloseFile
\* a variant that leaves the alignment byte out of the RIFF size
WavRiffSize_NoPad(bw, aligned) == U32(WAdd(bw, W(36)))

\* byteswritten + 36 + aligned
WavRiffSize(bw, aligned) == U32(WAdd(bw, W(36 + aligned)))

\* fail names the call that fails, if any: the putc of the alignment byte
\* or one of the two seeks
WAV_CloseFile(s, fail) ==
  LET odd == s.byteswritten[2] % 2 = 1
      padded == odd /\ fail # "putc"
      aligned == IF padded THEN 1 ELSE 0
      s1 == IF padded THEN [s EXCEPT !.wav.len = WAdd(@, W(1))] ELSE s
      ok1 == ~(odd /\ fail = "putc")
      ok2 == ok1 /\ fail # "seek4"
      s2 == IF ok2 THEN [s1 EXCEPT !.wav.riff = WavRiffSize(s.byteswritten, aligned)]
                   ELSE s1
      ok3 == ok2 /\ fail # "seek40"
      s3 == IF ok3 THEN [s2 EXCEPT !.wav.data = s.byteswritten] ELSE s2
  IN  [ s |-> [s3 EXCEPT !.wav.open = FALSE, !.wav.ok = @ /\ ok3],
        ret |-> IF ok3 THEN 1 ELSE 0 ]

\* ---------------------------------------------------------------- actions
Adds == {"video", "audio"}

\* an add that follows a failed add, or happens after the run left the
\* calling order, is outside what hist counts
StillClean == hist.clean /\ ~(lastOp \in Adds /\ ret = 0)

\* the add writes a frame before it takes its own
VideoFlushes(b, s) == s.current_screen_size >= 0 /\ VideoMayFlush(b, s)

AudioFlushes(s) == s.current_audio_samples >= 0 /\ s.current_screen_size >= 0

\* what the file system can answer to the writes of a call: a call that
\* writes nothing has nothing to fail
IOResults(writes) ==
  IF writes /\ ~hist.ioFailed THEN BOOLEAN ELSE {TRUE}

\* the steps of a close that write, each of which may be the one that fails
CloseFailures(b, s) ==
  IF ~hist.ioFailed
  THEN {"none", "index", "header"}
         \cup (IF FinalFramePending(b, s) THEN {"frame"} ELSE {})
  ELSE {"none"}

\* what an open meets: fopen fails, or it gives a file and the emulator
\* is set up as one of Machines, with sound on or off where the build has
\* sound, and the codec's init answers
OpenInputs(b) ==
  { [ fopen_ok |-> FALSE, cfg |-> c, sound_enabled |-> FALSE, init_result |-> -1 ] :
      c \in {m \in Machines : m.tv = "PAL"} }
  \cup
  { [ fopen_ok |-> TRUE, cfg |-> c, sound_enabled |-> e, init_result |-> i ] :
      c \in Machines, e \in (IF b.SOUND THEN BOOLEAN ELSE {FALSE}),
      i \in InitResults }

Unclean(h) ==
  [h EXCEPT !.nVideo = 0, !.nAudio = 0, !.sum = 0, !.last = "none",
            !.clean = FALSE]

Failed(h) == [h EXCEPT !.ioFailed = TRUE]

\* a call that was handed no batch too large for audio_buffer has returned
Later(h) ==
  [h EXCEPT !.overBatch = IF @ = "none" THEN "none" ELSE "earlier"]

\* the same answers where the file system can fail, none otherwise
IOResultsIf(may_fail, writes) == IF may_fail THEN IOResults(writes) ELSE {TRUE}

\* the operations, for an environment that offers these inputs
OpenWith(inputs, may_fail) ==
  /\ ~st.fp_open
  /\ \E in \in inputs :
     \E io \in IOResultsIf(may_fail, in.fopen_ok /\ in.init_result >= 0) :
       LET o == AVI_OpenFile(build, st, in.fopen_ok, in.cfg, in.sound_enabled,
                             in.init_result, io)
       IN  /\ st' = o.s
           /\ ret' = IF o.ok THEN 1 ELSE 0
           /\ hooks' = o.hooks
           /\ hist' = IF ~in.fopen_ok
                      THEN [NoHist EXCEPT !.ioFailed = hist.ioFailed]
                      ELSE IF io THEN NoHist ELSE Failed(NoHist)
  /\ lastOp' = "open"
  /\ UNCHANGED build

AddVideoFrameWith(results, max_frames, may_fail) ==
  /\ st.fp_open
  /\ VideoFlushes(build, st) => st.frames_written < max_frames
  /\ \E r \in results, io \in IOResultsIf(may_fail, VideoFlushes(build, st)) :
       LET a == AVI_AddVideoFrame(build, st, r, io)
           ok == /\ StillClean
                 /\ r >= 0 /\ io
                 /\ (st.num_streams = 2 => hist.last # "video")
       IN  /\ st' = a.s
           /\ ret' = a.ret
           /\ hooks' = a.hooks
           /\ hist' = Later(IF ok
                      THEN [hist EXCEPT !.nVideo = @ + 1, !.last = "video"]
                      ELSE [Unclean(hist) EXCEPT
                              !.codecErr = @ \/ (r < 0 /\ a.s.current_screen_size = r),
                              !.ioFailed = @ \/ ~io])
  /\ lastOp' = "video"
  /\ UNCHANGED build

AddAudioSamples ==
  /\ build.SOUND
  /\ st.fp_open
  /\ AudioFlushes(st) => st.frames_written < MaxFrames
  /\ \E n \in SampleCounts, io \in IOResults(AudioFlushes(st)) :
       LET a == AVI_AddAudioSamples(build, st, n, io)
           ok == /\ StillClean
                 /\ io
                 /\ n >= 1 /\ n * st.sample_size <= st.audio_buffer_size
                 /\ st.num_streams = 2 /\ hist.last # "audio"
           h == IF ok
                THEN [hist EXCEPT !.nAudio = @ + 1, !.last = "audio",
                                  !.sum = @ + n]
                ELSE IF io THEN Unclean(hist) ELSE Failed(Unclean(hist))
       IN  /\ st' = a.s
           /\ ret' = a.ret
           /\ hooks' = {}
           /\ hist' = IF n * st.sample_size > st.audio_buffer_size
                      THEN [h EXCEPT !.overBatch = "last"]
                      ELSE Later(h)
  /\ lastOp' = "audio"
  /\ UNCHANGED build

CloseWith(may_fail) ==
  /\ st.fp_open
  /\ \E fail \in (IF may_fail THEN CloseFailures(build, st) ELSE {"none"}) :
       LET c == AVI_CloseFile(build, st, fail)
       IN  /\ st' = c.s
           /\ ret' = c.ret
           /\ hooks' = c.hooks
           /\ hist' = Later(IF fail # "none" THEN Failed(Unclean(hist))
                            ELSE IF StillClean THEN hist ELSE Unclean(hist))
  /\ lastOp' = "close"
  /\ UNCHANGED build

\* the recording session in an environment where every call can fail
Open == OpenWith(OpenInputs(build), TRUE)

AddVideoFrame == AddVideoFrameWith(FrameResults, MaxFrames, TRUE)

Close == CloseWith(TRUE)

Next == Open \/ AddVideoFrame \/ AddAudioSamples \/ Close

Spec == Init /\ [][Next]_vars

\* ------------------------------------------- configuration and recording
\* The choice of the codec and the keyframe cadence: lines of the
\* configuration file are read between sessions, and sessions of small
\* frames are recorded in builds without SOUND where no call fails.
ConfigBuilds == [SOUND : {FALSE}, ZMBVZ : BOOLEAN, PNG : {TRUE}]

InitConfig ==
  /\ build \in ConfigBuilds
  /\ st = InitStatics
  /\ lastOp = "none"
  /\ ret = 1
  /\ hooks = {}
  /\ hist = NoHist

ConfigOpenInputs ==
  { [ fopen_ok |-> TRUE, cfg |-> c, sound_enabled |-> FALSE,
      init_result |-> HugeFrame ] : c \in Machines }

ReadConfig ==
  /\ ~st.fp_open
  /\ \E string \in {"VIDEO_CODEC", "VIDEO_CODEC_KEYFRAME_INTERVAL"} :
     \E ptr \in (IF string = "VIDEO_CODEC" THEN CodecWords ELSE IntervalValues) :
       LET c == File_Export_ReadConfig(build, st, string, ptr)
       IN  st' = c.s /\ ret' = c.ret
  /\ lastOp' = "config"
  /\ hooks' = {}
  /\ UNCHANGED <<build, hist>>

RecordOpen == OpenWith(ConfigOpenInputs, FALSE)

RecordFrame == AddVideoFrameWith({0}, MaxCadenceFrames, FALSE)

RecordClose == CloseWith(FALSE)

NextConfig == ReadConfig \/ RecordOpen \/ RecordFrame \/ RecordClose

SpecConfig == InitConfig /\ [][NextConfig]_vars

\* ------------------------------------------------------ long recordings
\* One session of empty inter-frames without an audio stream, in which no
\* call fails, long enough for the index to be grown twice.
LongBuilds == [SOUND : BOOLEAN, ZMBVZ : {FALSE}, PNG : {FALSE}]

InitLong ==
  /\ build \in LongBuilds
  /\ st = InitStatics
  /\ lastOp = "none"
  /\ ret = 1
  /\ hooks = {}
  /\ hist = NoHist

LongOpen == OpenWith(ConfigOpenInputs, FALSE)

LongFrame == AddVideoFrameWith({0}, MaxLongFrames, FALSE)

NextLong == LongOpen \/ LongFrame

SpecLong == InitLong /\ [][NextLong]_vars

\* ------------------------------------------------------ sound recording
\* A process that records sound files: WAV_OpenFile, WAV_WriteSamples and
\* WAV_CloseFile on the FILE* the open returned. The batches: none, one and
\* two samples, and one of 32760 * 65536 samples that brings byteswritten to
\* the limit in two calls. The last is offered for 8-bit samples, where the
\* int result of WAV_WriteSamples holds its size.
WavBuilds == [SOUND : {TRUE}, ZMBVZ : {FALSE}, PNG : {FALSE}]

InitWav ==
  /\ build \in WavBuilds
  /\ st = InitStatics
  /\ lastOp = "none"
  /\ ret = 1
  /\ hooks = {}
  /\ hist = NoHist

WavBatches(s) ==
  {W(0), W(1), W(2)} \cup (IF s.sample_size = 1 THEN {<<32760, 0>>} ELSE {})

\* the operations, for an environment that offers these inputs
WavOpenWith(machines, may_fail) ==
  /\ ~st.wav.open
  /\ \E fopen_ok \in (IF may_fail THEN BOOLEAN ELSE {TRUE}), cfg \in machines :
     \E io \in (IF may_fail /\ fopen_ok THEN BOOLEAN ELSE {TRUE}) :
       LET o == WAV_OpenFile(st, fopen_ok, cfg, io)
       IN  st' = o.s /\ ret' = (IF o.ok THEN 1 ELSE 0)
  /\ lastOp' = "wavopen"
  /\ hooks' = {}
  /\ UNCHANGED <<build, hist>>

WavWriteSamplesWith(batches, max_writes, may_fail) ==
  /\ st.wav.open
  /\ st.wav.calls < max_writes
  /\ \E n \in batches :
     \E io \in (IF may_fail /\ n # W(0) /\ st.wav.ok THEN BOOLEAN ELSE {TRUE}) :
       LET w == WAV_WriteSamples(st, n, io)
       IN  st' = w.s /\ ret' = WInt(w.ret)
  /\ lastOp' = "wavwrite"
  /\ hooks' = {}
  /\ UNCHANGED <<build, hist>>

WavCloseWith(may_fail) ==
  /\ st.wav.open
  /\ \E fail \in (IF may_fail /\ st.wav.ok
                 THEN {"none", "putc", "seek4", "seek40"} ELSE {"none"}) :
       LET c == WAV_CloseFile(st, fail)
       IN  st' = c.s /\ ret' = c.ret
  /\ lastOp' = "wavclose"
  /\ hooks' = {}
  /\ UNCHANGED <<build, hist>>

WavOpen == WavOpenWith(WavMachines, TRUE)

WavWriteSamples == WavWriteSamplesWith(WavBatches(st), MaxWavWrites, TRUE)

WavClose == WavCloseWith(TRUE)

NextWav == WavOpen \/ WavWriteSamples \/ WavClose

SpecWav == InitWav /\ [][NextWav]_vars

\* ------------------------------------------- sound and video recording
\* A process that records a sound file and a video file at a time. The
\* video session is followed as long as frames_written is the number of
\* frames it has written: a frame flush or a close of the video file is
\* offered in such states only.
CounterIntact == st.frames_written = Len(st.frame_indexes)

SharedOpenInputs ==
  { [ fopen_ok |-> TRUE, cfg |-> c, sound_enabled |-> e,
      init_result |-> HugeFrame ] : c \in Machines, e \in BOOLEAN }

SharedOpen == OpenWith(SharedOpenInputs, FALSE)

SharedWavOpen == WavOpenWith(Machines, FALSE)

SharedWavWrite == WavWriteSamplesWith({W(1)}, MaxFrames, FALSE)

SharedWavClose == WavCloseWith(FALSE)

SharedFrame ==
  /\ VideoFlushes(build, st) => CounterIntact
  /\ AddVideoFrameWith({0}, MaxFrames, FALSE)

SharedClose == CounterIntact /\ CloseWith(FALSE)

NextShared ==
  \/ SharedWavOpen \/ SharedWavWrite \/ SharedWavClose
  \/ SharedOpen \/ SharedFrame \/ SharedClose

SpecShared == InitWav /\ [][NextShared]_vars

\* ------------------------------------------------------------- options
\* The options of the export: the command line is read when the program
\* starts, lines of the configuration file are read, and the configuration
\* is written to a file and read back from it.
OptionBuilds == [SOUND : {FALSE}, ZMBVZ : BOOLEAN, PNG : BOOLEAN]

InitOptions ==
  /\ build \in OptionBuilds
  /\ st = InitStatics
  /\ lastOp = "none"
  /\ ret = 1
  /\ hooks = {}
  /\ hist = NoHist

\* the words given for a number: in and out of range, a negative one and
\* one of three digits
NumberWords ==
  { <<"0">>, <<"5">>, <<"1", "0">>, <<"-", "5">>, <<"2", "5", "0">> }

CommandOptions ==
  { Option("-videocodec", TRUE, w) : w \in CodecWords \cup {<<"A", "U", "T", "O">>} }
  \cup { Option(n, TRUE, w) :
           n \in {"-keyframe-interval", "-compression-level"}, w \in NumberWords }
  \cup { Option("-help", FALSE, <<>>), Option("-keyframe-interval", FALSE, <<>>) }

CommandLines ==
  UNION { [1..n -> CommandOptions] : n \in 1..MaxOptions }

Initialise ==
  /\ lastOp = "none"
  /\ \E argv \in CommandLines :
       LET r == File_Export_Initialise(build, st, argv)
       IN  st' = r.s /\ ret' = r.ret
  /\ lastOp' = "initialise"
  /\ UNCHANGED <<build, hooks, hist>>

ReadLine ==
  /\ \E string \in {"VIDEO_CODEC", "VIDEO_CODEC_KEYFRAME_INTERVAL",
                     "COMPRESSION_LEVEL", "SCREENSHOT"} :
     \E ptr \in (IF string = "VIDEO_CODEC" THEN CodecWords ELSE NumberWords) :
       LET c == File_Export_ReadConfig(build, st, string, ptr)
       IN  st' = c.s /\ ret' = c.ret
  /\ lastOp' = "config"
  /\ UNCHANGED <<build, hooks, hist>>

WriteConfig ==
  /\ st' = [st EXCEPT !.saved =
               [ written |-> TRUE,
                 lines |-> File_Export_WriteConfig(build, st),
                 codec |-> st.requested_video_codec,
                 interval |-> st.keyframe_interval,
                 level |-> st.compression_level ]]
  /\ lastOp' = "write"
  /\ ret' = 1
  /\ UNCHANGED <<build, hooks, hist>>

\* the lines from the i-th on are read in order; ret = 1 if File_Export_
\* ReadConfig took all of them
RECURSIVE ReadLines(_, _, _, _)
ReadLines(b, s, lines, i) ==
  IF i > Len(lines) THEN [ s |-> s, ret |-> 1 ]
  ELSE LET c == File_Export_ReadConfig(b, s, lines[i][1], lines[i][2])
           rest == ReadLines(b, c.s, lines, i + 1)
       IN  [ s |-> rest.s, ret |-> IF c.ret = 1 THEN rest.ret ELSE 0 ]

ReadBack ==
  /\ st.saved.written
  /\ LET r == ReadLines(build, st, st.saved.lines, 1)
     IN  st' = r.s /\ ret' = r.ret
  /\ lastOp' = "readback"
  /\ UNCHANGED <<build, hooks, hist>>

NextOptions == Initialise \/ ReadLine \/ WriteConfig \/ ReadBack

SpecOptions == InitOptions /\ [][NextOptions]_vars

\* ---------------------------------------------------------- screenshots
\* A screen is saved as a PCX file. The screens: one line of two stretches
\* of pixels of a colour each, with the stretches as long as the longest
\* run, one shorter and one longer; and all screens of up to two lines of
\* up to three pixels. The colours lie on both sides of 0xc0.
Pixels == {0, 191, 192, 255}

LongWidths == {63, 64, 65, 127, 128}

Cuts == {0, 1, 62, 63, 64}

SmallWidths == 1..3

SmallHeights == 1..2

TwoStretches(w, cut, v1, v2) == [ x \in 1..w |-> IF x <= cut THEN v1 ELSE v2 ]

Screens ==
  { << TwoStretches(w, cut, v1, v2) >> :
      w \in LongWidths, cut \in Cuts, v1 \in Pixels, v2 \in Pixels }
  \cup UNION { [1..h -> [1..w -> Pixels]] : w \in SmallWidths, h \in SmallHeights }

InitPcx ==
  /\ build \in [SOUND : {FALSE}, ZMBVZ : {FALSE}, PNG : {FALSE}]
  /\ \E screen \in Screens :
     \E after \in [1..Len(screen) -> Pixels] :
       st = [InitStatics EXCEPT !.pcx.screen = screen, !.pcx.after = after]
  /\ lastOp = "none"
  /\ ret = 1
  /\ hooks = {}
  /\ hist = NoHist

SaveScreen ==
  /\ st' = [st EXCEPT !.pcx.file = PCX_SaveScreen(st.pcx.screen, st.pcx.after)]
  /\ lastOp' = "pcx"
  /\ UNCHANGED <<build, ret, hooks, hist>>

NextPcx == SaveScreen

SpecPcx == InitPcx /\ [][NextPcx]_vars

\* ================================================================ claims
\* the frames in the file: its 00dc chunks and its 01wb chunks, in order
VideoChunks == SelectSeq(st.chunks, LAMBDA c : c.tag = "00dc")

AudioChunks == SelectSeq(st.chunks, LAMBDA c : c.tag = "01wb")

\* the entries of idx1 of either stream, in order
VideoEntries == SelectSeq(st.idx1.entries, LAMBDA e : e.tag = "00dc")

AudioEntries == SelectSeq(st.idx1.entries, LAMBDA e : e.tag = "01wb")

\* byteswritten is above the recording limit
LimitPassed == WGt(st.byteswritten, <<65520, 0>>)

\* a session that took its adds in turn and met no error (see hist)
CleanTwoStream == st.num_streams = 2 /\ hist.clean

CleanVideoOnly == st.num_streams = 1 /\ hist.clean

\* what C1 promises of a clean two-stream session
AllAddsSucceed ==
  /\ lastOp \in Adds => ret = 1
  /\ (lastOp = "close" /\ hist.nVideo >= 1 /\ hist.nVideo = hist.nAudio)
       => /\ ret = 1
          /\ st.frames_written = hist.nVideo
          /\ st.samples_written = hist.sum

\* C1 as stated: in a two-stream session without I/O or codec errors whose
\* batches hold a sample and fit the buffer, adds made in turn all succeed
\* and the close succeeds with frames_written = N and samples_written the
\* sum of the batches.
C1_AsStated == CleanTwoStream => AllAddsSucceed

\* C1 amended: the same, as long as no frame flush has taken byteswritten
\* above MAX_RECORDING_SIZE.
C1_AlternatingAddsSucceed == (CleanTwoStream /\ ~LimitPassed) => AllAddsSucceed

C1_Witness ==
  /\ CleanTwoStream /\ ~LimitPassed
  /\ lastOp = "close" /\ ret = 1
  /\ hist.nVideo = 2 /\ hist.nAudio = 2
  /\ st.frames_written = 2 /\ st.samples_written = 2

\* C2: in a video-only session without errors, N >= 1 video adds and a
\* close record all N frames: frames_written = N and idx1 lists N video
\* entries. (Stated for sessions that stay below the size limit.)
C2_AllFramesRecorded ==
  (CleanVideoOnly /\ ~LimitPassed /\ lastOp = "close" /\ hist.nVideo >= 1)
    => /\ ret = 1
       /\ st.frames_written = hist.nVideo
       /\ Len(VideoEntries) = hist.nVideo

\* C3: once the codec's frame hook has returned a negative value, every
\* add of the session fails.
C3_CodecErrorPoisons == (hist.codecErr /\ lastOp \in Adds) => ret = 0

\* C4: an add_video_frame that finds a video size pending and either a
\* video-only session or an audio count pending (zero included) writes the
\* pending frame out.
C4_PendingFrameFlushed ==
  [][ ( /\ st.fp_open /\ lastOp' = "video"
        /\ st.current_screen_size >= 0
        /\ (st.num_streams = 1 \/ st.current_audio_samples >= 0) )
      => st'.frames_written = st.frames_written + 1 ]_vars

\* C5: in a two-stream session a video add that finds video pending and no
\* audio, and an audio add that finds audio pending and no video, fail,
\* call no codec hook and leave the statics and the file as they were.
C5_OutOfPhaseFails ==
  [][ ( /\ st.fp_open /\ st.num_streams = 2
        /\ \/ /\ lastOp' = "video"
              /\ st.current_screen_size >= 0 /\ st.current_audio_samples < 0
           \/ /\ lastOp' = "audio"
              /\ st.current_audio_samples >= 0 /\ st.current_screen_size < 0 )
      => (ret' = 0 /\ hooks' = {} /\ st' = st) ]_vars

C5_Witness ==
  /\ st.fp_open /\ st.num_streams = 2 /\ ret = 0
  /\ \/ lastOp = "video" /\ st.current_screen_size >= 0 /\ st.current_audio_samples = -1
     \/ lastOp = "audio" /\ st.current_audio_samples >= 0 /\ st.current_screen_size = -1

\* C6 as stated: byteswritten <= MAX_RECORDING_SIZE in every state.
C6_AsStated == ~LimitPassed

\* C6 amended: byteswritten passes MAX_RECORDING_SIZE only in a frame
\* flush, and the add or close that made that flush returns 0.
C6_LimitPassedMeansStop ==
  [][ (~LimitPassed /\ LimitPassed')
      => (lastOp' \in Adds \cup {"close"} /\ ret' = 0
          /\ st'.frames_written = st.frames_written + 1) ]_vars

C6_Witness == LimitPassed /\ lastOp = "close" /\ ret = 0 /\ ~hist.ioFailed

\* C7 as stated: the add whose flush takes byteswritten above the limit
\* still takes its own frame or batch and returns success.
C7_AsStated ==
  [][ (lastOp' \in Adds /\ ~LimitPassed /\ LimitPassed') => ret' = 1 ]_vars

\* C7 amended: the add whose flush takes byteswritten above the limit
\* writes the pending frame in full and returns 0 at once; its own frame
\* or batch is not taken and both sentinels are left at -1.
C7_FlushingAddStops ==
  [][ (lastOp' \in Adds /\ ~LimitPassed /\ LimitPassed')
      => /\ ret' = 0 /\ hooks' = {}
         /\ st'.frames_written = st.frames_written + 1
         /\ st'.current_screen_size = -1
         /\ (build.SOUND => st'.current_audio_samples = -1) ]_vars

C7_Witness ==
  /\ LimitPassed /\ lastOp \in Adds /\ ret = 0 /\ ~hist.ioFailed
  /\ st.frames_written = 2 /\ st.current_screen_size = -1

\* every frame in the file has sizes the index word can hold
WithinIndexWidths ==
  /\ \A k \in 1..Len(VideoChunks) : VideoChunks[k].size <= 262143
  /\ \A k \in 1..Len(AudioChunks) : AudioChunks[k].size <= 8191

\* the offset of a chunk from the 'movi' FourCC
FromMovi(c) == WSub(c.pos, W(st.header.movi_pos))

\* C8: after a successful close the offset of the k-th video entry of idx1
\* (and of the k-th audio entry, with an audio stream) is the position of
\* that chunk less the position of the 'movi' FourCC. (Stated for files
\* whose frames fit the index widths.)
C8_IndexOffsetsAgree ==
  (lastOp = "close" /\ ret = 1 /\ ~hist.ioFailed /\ WithinIndexWidths)
    => /\ Len(VideoEntries) = Len(VideoChunks)
       /\ \A k \in 1..Len(VideoChunks) :
            W(VideoEntries[k].offset) = FromMovi(VideoChunks[k])
       /\ st.num_streams = 2 =>
            /\ Len(AudioEntries) = Len(AudioChunks)
            /\ \A k \in 1..Len(AudioChunks) :
                 W(AudioEntries[k].offset) = FromMovi(AudioChunks[k])

\* C9: after a successful close idx1 matches the streams: video-only, its
\* size field is frames_written * 16 with one 00dc entry a frame and no
\* 01wb entry; two streams, frames_written * 32 with one of each a frame.
C9_IndexMatchesStreams ==
  (lastOp = "close" /\ ret = 1 /\ ~hist.ioFailed)
    => IF st.num_streams = 1
       THEN /\ st.idx1.size = st.frames_written * 16
            /\ Len(VideoEntries) = st.frames_written
            /\ Len(AudioEntries) = 0
       ELSE /\ st.idx1.size = st.frames_written * 32
            /\ Len(VideoEntries) = st.frames_written
            /\ Len(AudioEntries) = st.frames_written

\* C10: for every frame in the file whose video size is at most 262143 and
\* whose audio size is at most 8191, idx1 gives back the size field of its
\* 00dc chunk, the size field of its 01wb chunk and, as the keyframe flag,
\* the keyframe argument the codec got when it encoded the frame.
C10_IndexRoundTrip ==
  st.idx1.written =>
    /\ Len(VideoEntries) = Len(VideoChunks)
    /\ \A k \in 1..Len(VideoChunks) :
         LET asize == IF st.num_streams = 2 THEN AudioChunks[k].size ELSE 0
         IN  (VideoChunks[k].size <= 262143 /\ asize <= 8191)
               => /\ VideoEntries[k].size = VideoChunks[k].size
                  /\ (VideoEntries[k].flags = 16) = VideoChunks[k].want_keyframe
                  /\ VideoEntries[k].flags \in {0, 16}
                  /\ st.num_streams = 2 => AudioEntries[k].size = asize

C10_Witness ==
  /\ st.idx1.written /\ st.num_streams = 2 /\ Len(VideoChunks) = 3
  /\ VideoChunks[1].size = 262143 /\ AudioChunks[1].size = 1
  /\ VideoChunks[2].size = 0 /\ AudioChunks[2].size = 0
  /\ VideoEntries[1].flags = 16 /\ VideoEntries[2].flags = 0
  /\ VideoChunks[3].size > 262143

\* C11: no chunk is written with a size its field of the index word cannot
\* hold: 262143 for a 00dc chunk, 8191 for a 01wb chunk.
C11_IndexWidthsEnforced ==
  \A k \in 1..Len(st.chunks) :
    st.chunks[k].size <= (IF st.chunks[k].tag = "00dc" THEN 262143 ELSE 8191)

\* where the k-th chunk of the file starts if the chunks before it took
\* size + 8 + (size mod 2) bytes each, the first following the 'movi' FourCC
RECURSIVE ChunkStart(_)
ChunkStart(k) ==
  IF k = 1 THEN W(st.header.movi_pos + 4)
  ELSE WAdd(ChunkStart(k - 1),
            W(st.chunks[k - 1].size + 8 + (st.chunks[k - 1].size % 2)))

\* C12: while no write was cut short, every chunk of the file starts at an
\* even offset, right after the chunk before it, and takes its size field
\* + 8 + (size field mod 2) bytes.
C12_ChunksWordAligned ==
  ~hist.ioFailed =>
    \A k \in 1..Len(st.chunks) :
      /\ st.chunks[k].pos[2] % 2 = 0
      /\ st.chunks[k].pos = ChunkStart(k)
      /\ st.chunks[k].len = st.chunks[k].size + 8 + (st.chunks[k].size % 2)

C12_Witness ==
  /\ ~hist.ioFailed /\ st.num_streams = 2 /\ Len(st.chunks) = 4
  /\ st.chunks[1].size = 262143 /\ st.chunks[1].len = 262152
  /\ st.chunks[2].size = 1 /\ st.chunks[2].len = 10
  /\ st.chunks[3].size = 0

\* 4 for the 'movi' FourCC and what the first k chunks take
RECURSIVE MoviPayload(_)
MoviPayload(k) ==
  IF k = 0 THEN W(4)
  ELSE WAdd(MoviPayload(k - 1),
            W(st.chunks[k].size + 8 + (st.chunks[k].size % 2)))

\* the size fields of the header are the sizes of what is in the file
SizesAgree ==
  /\ st.header.size_riff = WSub(st.flen, W(8))
  /\ st.header.size_movi = MoviPayload(Len(st.chunks))

RECURSIVE SamplesIn(_)
SamplesIn(k) == IF k = 0 THEN 0 ELSE SamplesIn(k - 1) + AudioChunks[k].samples

\* C14: after a successful close the frame counts of the header (avih
\* total frames, video strh length) are the number of 00dc chunks and the
\* number of video entries of idx1, and with an audio stream the audio
\* strh length is the number of samples of all 01wb chunks.
C14_HeaderCounts ==
  (lastOp = "close" /\ ret = 1)
    => /\ st.header.frames = Len(VideoChunks)
       /\ st.header.frames = Len(VideoEntries)
       /\ st.num_streams = 2 => st.header.samples = SamplesIn(Len(AudioChunks))

C14_Witness ==
  /\ lastOp = "close" /\ ret = 1 /\ st.num_streams = 2
  /\ st.header.frames = 3 /\ st.header.samples = 2

\* C17: the hooks of the codec are called in order (init, then frames,
\* then end, none of them out of place), and the codec is live exactly
\* while a session is open: every session whose init succeeded has had its
\* end once the file is closed, be it by a failed open or by a close.
C17_CodecLifecycle ==
  /\ ~st.codec_misused
  /\ st.codec_live <=> st.fp_open

C17_Witness ==
  /\ lastOp = "open" /\ ret = 0 /\ hooks = {"init", "end"}
  /\ ~st.codec_live /\ ~st.codec_misused /\ st.frames_written = 0
  /\ st.header.written

\* a close none of whose writes is cut short
CloseWithoutIOFailure == lastOp' = "close" /\ (hist.ioFailed \/ ~hist'.ioFailed)

\* the close wrote the pending frame and byteswritten is above the limit
CloseFlushOverLimit ==
  /\ st'.frames_written = st.frames_written + 1
  /\ WGt(st'.byteswritten, <<65520, 0>>)

\* C19 as stated: a close none of whose I/O steps fails returns success.
C19_AsStated == [][ CloseWithoutIOFailure => ret' = 1 ]_vars

\* C19 amended: a close none of whose I/O steps fails returns success, with
\* the index written and the header rewritten with the final sizes and
\* counts, exactly if a frame has been flushed and the final flush of the
\* close did not leave byteswritten above the limit; otherwise it returns
\* failure and the header stays as the open wrote it.
C19_CloseFinalizes ==
  [][ CloseWithoutIOFailure =>
        /\ ret' = 1 <=> (st'.frames_written > 0 /\ ~CloseFlushOverLimit)
        /\ ret' = 1 => /\ st'.idx1.written
                       /\ st'.header.frames = st'.frames_written
                       /\ st'.header.size_riff = U32(WSub(st'.flen, W(8)))
        /\ ret' = 0 => st'.header = st.header ]_vars

C19_Witness ==
  /\ lastOp = "close" /\ ret = 0 /\ ~hist.ioFailed
  /\ st.num_streams = 2 /\ st.frames_written = 0
  /\ st.header.written /\ st.header.size_riff = W(0) /\ ~st.idx1.written

\* C20: after a close, whatever it returned, the file is closed, the video
\* buffer, the audio buffer and the index are released and both sentinels
\* are -1.
C20_CloseReleases ==
  lastOp = "close" =>
    /\ ~st.fp_open
    /\ ~st.video_buffer_alloc /\ st.video_buffer_size = 0
    /\ ~st.audio_buffer_alloc /\ st.audio_buffer_size = 0
    /\ ~st.frame_indexes_alloc /\ st.num_frames_allocated = 0
    /\ st.current_screen_size = -1 /\ st.current_audio_samples = -1

C20_Witness ==
  /\ lastOp = "close" /\ ret = 0 /\ hist.ioFailed
  /\ st.num_streams = 2 /\ st.frames_written = 2
  /\ ~st.fp_open /\ ~st.audio_buffer_alloc /\ ~st.frame_indexes_alloc

\* C15: with the Motion-PNG codec, which has no inter-frames, every frame
\* was asked from the codec as a keyframe, every index word has the
\* keyframe bit and every video entry of idx1 the flag 0x10, whatever the
\* keyframe interval.
C15_AllKeyframes ==
  st.video_codec = "MPNG" =>
    /\ \A k \in 1..Len(VideoChunks) : VideoChunks[k].want_keyframe
    /\ \A i \in 1..Len(st.frame_indexes) : KeyframeBit(st.frame_indexes[i])
    /\ \A k \in 1..Len(VideoEntries) : VideoEntries[k].flags = 16

C15_Witness ==
  /\ st.video_codec = "MPNG" /\ st.keyframe_interval = 30
  /\ lastOp = "close" /\ ret = 1
  /\ Len(VideoEntries) = 6 /\ VideoEntries[2].flags = 16

\* the number of index words among the first n that have the keyframe bit
RECURSIVE KeyframesIn(_)
KeyframesIn(n) ==
  IF n = 0 THEN 0
  ELSE KeyframesIn(n - 1) + (IF KeyframeBit(st.frame_indexes[n]) THEN 1 ELSE 0)

\* floor(N * 1000 / (fps * K)) + 1, fps being held in thousandths
ExpectedKeyframes(n) ==
  ((n * 1000000) \div (st.fps * st.keyframe_interval)) + 1

\* the keyframes among the first N frames of the session are within one of
\* the expected number, for every N so far
CadenceWithinOne ==
  \A n \in 1..Len(st.frame_indexes) :
    /\ KeyframesIn(n) - ExpectedKeyframes(n) <= 1
    /\ ExpectedKeyframes(n) - KeyframesIn(n) <= 1

\* a session is open whose codec has inter-frames
InterframeSession == st.fp_open /\ UsesInterframes(st.video_codec)

\* C16 as stated: with a codec that has inter-frames and a frame period of
\* whole milliseconds (PAL, 20 ms), for every interval K >= 1 ms the number
\* of keyframes among the first N frames is within one of
\* floor(N * 1000 / (fps * K)) + 1.
C16_AsStated == (InterframeSession /\ st.fps = 50000) => CadenceWithinOne

\* C16 amended: the same for every interval K longer than the frame period
\* (K * fps > 1000), in PAL and in NTSC; at most one keyframe is asked for
\* per frame, and an interval of exactly the frame period yields one every
\* second frame.
C16_KeyframeCadence ==
  (InterframeSession /\ st.keyframe_interval * st.fps > 1000000)
    => CadenceWithinOne

C16_Witness ==
  /\ InterframeSession /\ st.fps = 50000 /\ st.keyframe_interval = 30
  /\ Len(st.frame_indexes) = 5 /\ KeyframesIn(5) = 3
  /\ ExpectedKeyframes(5) = 4

\* C18: the codec of an open session is the one requested when it was
\* opened, or the best available one if none was requested.
C18_CodecFollowsRequest ==
  st.fp_open =>
    st.video_codec = (IF st.requested_video_codec = "NULL"
                      THEN get_best_video_codec(build)
                      ELSE st.requested_video_codec)

\* an audio add gets as far as the test of the size of its batch: it finds
\* no batch pending without a frame and no error value, and the frame it
\* writes, if any, is written in full and below the limit
ReachesSizeTest ==
  /\ lastOp' = "audio"
  /\ ~(st.current_audio_samples >= 0 /\ st.current_screen_size < 0)
  /\ ~(st.current_audio_samples < 0
        /\ (st.current_screen_size < -1 \/ st.current_audio_samples < -1))
  /\ ~(st'.frames_written = st.frames_written + 1
        /\ st'.current_audio_samples = -1)

\* C21 as stated: once an audio add was handed a batch larger than the
\* audio buffer, that add and every later add of the session fail.
C21_AsStated == (hist.overBatch # "none" /\ lastOp \in Adds) => ret = 0

\* C21 amended: an audio add that gets as far as the test of the size with
\* a batch larger than the audio buffer fails, copies nothing into the
\* buffer and leaves the error value -2, and with that value every later
\* add of the session fails and changes nothing.
C21_OversizeBatchPoisons ==
  [][ /\ (ReachesSizeTest /\ hist'.overBatch = "last")
         => /\ ret' = 0 /\ st'.current_audio_samples = -2
            /\ st'.audio_buffer_len = st.audio_buffer_len
      /\ (st.current_audio_samples = -2 /\ lastOp' \in Adds)
         => (ret' = 0 /\ hooks' = {} /\ st' = st) ]_vars

C21_Witness ==
  /\ st.fp_open /\ st.current_audio_samples = -2 /\ hist.overBatch = "earlier"
  /\ lastOp = "video" /\ ret = 0 /\ st.current_screen_size >= 0
  /\ st.audio_buffer_len = 1 /\ st.frames_written = 1

\* the operations on a sound file and those on a video file
WavOps == {"wavopen", "wavwrite", "wavclose"}

AviOps == {"open", "video", "audio", "close"}

\* C22: with a sound file and a video file open at a time, an operation on
\* the sound file leaves byteswritten, frames_written, fps and the sample
\* size of the video session as they were, and an operation on the video
\* file leaves byteswritten and frames_written of the sound session as they
\* were.
C22_SessionsIsolated ==
  [][ /\ (st.fp_open /\ lastOp' \in WavOps)
         => /\ st'.byteswritten = st.byteswritten
            /\ st'.frames_written = st.frames_written
            /\ st'.fps = st.fps
            /\ st'.sample_size = st.sample_size
      /\ (st.wav.open /\ lastOp' \in AviOps)
         => /\ st'.byteswritten = st.byteswritten
            /\ st'.frames_written = st.frames_written ]_vars

\* a sound file was closed: all calls of its session succeeded, and its
\* data, the sum of what WAV_WriteSamples returned, is followed by one zero
\* byte if the sum is odd
WavClosedOk == lastOp = "wavclose" /\ ret = 1 /\ st.wav.ok

WavPad == st.wav.sum[2] % 2

WavHeaderFixed ==
  /\ st.wav.riff = WAdd(st.wav.sum, W(36 + WavPad))
  /\ st.wav.data = st.wav.sum
  /\ st.wav.len = WAdd(W(44), WAdd(st.wav.sum, W(WavPad)))

C24_WavByteRate ==
  st.wav.open =>
    /\ st.wav.block_align = st.wav.channels * (st.wav.bits \div 8)
    /\ st.wav.bytes_per_sec = st.wav.rate * st.wav.block_align

\* C25: in every state the keyframe interval is at least 1 and the
\* compression level is one of 0..9; a value out of range, on the command
\* line or in the configuration file, is not stored.
C25_OptionsInRange ==
  /\ st.keyframe_interval >= 1
  /\ st.compression_level \in 0..9

\* the options as they were when the configuration file was written
SavedInRange ==
  /\ st.saved.interval >= 1
  /\ st.saved.level \in 0..9

\* C26: the lines WriteConfig wrote for a configuration with a keyframe
\* interval of at least 1 and a compression level of 0..9 are all taken by
\* ReadConfig, and reading them gives back the requested codec (or auto),
\* the keyframe interval and the compression level that were written.
C26_ConfigRoundTrip ==
  (lastOp = "readback" /\ SavedInRange)
    => /\ ret = 1
       /\ st.requested_video_codec = st.saved.codec
       /\ st.keyframe_interval = st.saved.interval
       /\ st.compression_level = st.saved.level

C26_Witness ==
  /\ lastOp = "readback" /\ ret = 1
  /\ st.saved.codec = "NULL" /\ st.saved.interval = 250 /\ st.saved.level = 5
  /\ st.saved.lines[1][2] = <<"A", "U", "T", "O">>
  /\ st.saved.lines[2][2] = <<"2", "5", "0">>
  /\ st.keyframe_interval = 250 /\ st.compression_level = 5

\* the runs a PCX reader takes from pixel data: a byte of 0xc0 and above is
\* a count in its low six bits and is followed by the value, any other byte
\* is one pixel
RECURSIVE PcxRuns(_, _)
PcxRuns(data, i) ==
  IF i > Len(data) THEN <<>>
  ELSE IF data[i] >= 192
       THEN IF i = Len(data) THEN << [ count |-> -1, value |-> data[i] ] >>
            ELSE << [ count |-> data[i] % 64, value |-> data[i + 1] ] >>
                   \o PcxRuns(data, i + 2)
       ELSE << [ count |-> 1, value |-> data[i] ] >> \o PcxRuns(data, i + 1)

\* the pixels of the runs from the k-th on
RECURSIVE PcxPixels(_, _)
PcxPixels(runs, k) ==
  IF k > Len(runs) THEN <<>>
  ELSE [ x \in 1..runs[k].count |-> runs[k].value ] \o PcxPixels(runs, k + 1)

\* the lines of a screen one after the other
RECURSIVE ScanLines(_, _)
ScanLines(screen, y) ==
  IF y > Len(screen) THEN <<>> ELSE screen[y] \o ScanLines(screen, y + 1)

\* the runs from the k-th on end within their line, x pixels of which
\* are taken
RECURSIVE RunsKeepToLines(_, _, _, _)
RunsKeepToLines(runs, k, x, width) ==
  IF k > Len(runs) THEN x = 0
  ELSE /\ x + runs[k].count <= width
       /\ RunsKeepToLines(runs, k + 1, (x + runs[k].count) % width, width)

\* C27: the pixel data PCX_SaveScreen writes for a screen that is not
\* interlaced, read by the RLE rule of PCX, gives back the screen line by
\* line; every count is one of 1..63 and no run goes beyond its line.
C27_PcxRoundTrip ==
  st.pcx.file.written =>
    LET runs == PcxRuns(st.pcx.file.data, 1)
    IN  /\ \A k \in 1..Len(runs) : runs[k].count \in 1..63
        /\ PcxPixels(runs, 1) = ScanLines(st.pcx.screen, 1)
        /\ RunsKeepToLines(runs, 1, 0, st.pcx.file.bytes_per_line)

C27_Witness ==
  /\ st.pcx.file.written /\ Len(st.pcx.screen[1]) = 128
  /\ st.pcx.file.data = <<255, 192, 193, 192, 255, 191, 191>>

\* an add or a close of a two-stream session writes a frame
TwoStreamFlush ==
  /\ st.fp_open /\ st.num_streams = 2
  /\ lastOp' \in Adds \cup {"close"}
  /\ st'.frames_written = st.frames_written + 1

\* what AVI_WriteFrame leaves of a state, whether its writes succeed or not
FlushResults(s) == { AVI_WriteFrame(build, s, io).s : io \in BOOLEAN }

\* C28: in a two-stream session a frame is written only from a state in
\* which both sentinels hold sizes that are not negative, the write leaves
\* both at -1, and no chunk of the file has a negative size or a negative
\* number of samples.
C28_FlushOnlyWhenBothPending ==
  [][ /\ TwoStreamFlush
         => /\ st.current_screen_size >= 0 /\ st.current_audio_samples >= 0
            /\ \A w \in FlushResults(st) :
                 w.current_screen_size = -1 /\ w.current_audio_samples = -1
            /\ st'.current_audio_samples = -1 \/ lastOp' = "audio"
            /\ st'.current_screen_size = -1 \/ lastOp' = "video"
      /\ \A k \in 1..Len(st'.chunks) :
           st'.chunks[k].size >= 0 /\ st'.chunks[k].samples >= 0 ]_vars

C28_Witness ==
  /\ st.fp_open /\ st.num_streams = 2 /\ lastOp = "audio" /\ ret = 1
  /\ st.frames_written = 2 /\ Len(st.chunks) = 4
  /\ st.current_screen_size = -1 /\ st.current_audio_samples = 1

\* the length of the file of the session: of an open session the length it
\* has once AVI_WriteIndex has run for the frames written so far (the
\* header and the chunks and, with a frame written, the 8 bytes that start
\* idx1 and its entries of 16 bytes), of a closed session the length it
\* was closed with
LengthIfClosed ==
  IF st.fp_open /\ st.frames_written > 0
  THEN WAdd(st.flen,
            W(8 + 16 * Len(IndexEntries(build, st.frame_indexes, 1, 4))))
  ELSE st.flen

\* an AVI session is open or has just been closed
InSession == st.fp_open \/ lastOp = "close"

HeaderRewritten ==
  st.fp_open /\ lastOp' = "close" /\ st'.header # st.header

\* C30: the header AVI_CloseFile writes again declares the hdrl length of
\* the header of the open and leaves 'movi' at the same position; it never
\* ends further on, so no chunk of the movi list lies under it; written
\* whole it has the byte length of the header of the open, which is 12 + 8
\* + the hdrl length + 12 and is fixed by the number of streams.
C30_HeaderLengthStable ==
  [][ HeaderRewritten
        => /\ st'.header.list_size = st.header.list_size
           /\ st'.header.list_size = ListSize(st.num_streams)
           /\ st'.header.movi_pos = st.header.movi_pos
           /\ st'.size_movi = st.size_movi
           /\ st'.header.len <= st.header.len
           /\ st.header.len = 12 + 8 + st.header.list_size + 12
           /\ ret' = 1 => st'.header.len = st.header.len
           /\ \A k \in 1..Len(st'.chunks) :
                WLe(W(st'.header.len), st'.chunks[k].pos) ]_vars

C30_Witness ==
  /\ lastOp = "close" /\ ret = 1 /\ st.num_streams = 2
  /\ st.header.frames = 2 /\ st.header.movi_pos = 1390
  /\ st.header.len = 12 + 8 + st.header.list_size + 12
  /\ st.chunks[1].pos = W(st.header.len)

\* a step of a session that writes a slot of frame_indexes
IndexWrite == st.fp_open /\ st'.frames_written = st.frames_written + 1

\* C31: every write to frame_indexes goes to a slot below
\* num_frames_allocated; num_frames_allocated is 1000 after the open and
\* grows by 1000 in the write after which frames_written is equal to it,
\* and in no other (the close that writes the last frame releases the
\* index in the same call).
C31_IndexSlotAllocated ==
  [][ /\ lastOp' = "open" /\ ret' = 1 => st'.num_frames_allocated = 1000
      /\ IndexWrite
            => /\ st.frames_written < st.num_frames_allocated
               /\ Len(st.frame_indexes) = st.frames_written
      /\ IndexWrite /\ lastOp' \in Adds
            => /\ Len(st'.frame_indexes) = st'.frames_written
               /\ st'.num_frames_allocated =
                    IF st'.frames_written = st.num_frames_allocated
                    THEN st.num_frames_allocated + 1000
                    ELSE st.num_frames_allocated
               /\ st'.frames_written < st'.num_frames_allocated ]_vars

C31_Witness ==
  /\ st.fp_open /\ lastOp = "video" /\ ret = 1
  /\ st.frames_written = 2000 /\ st.num_frames_allocated = 3000
  /\ Len(st.frame_indexes) = 2000

\* an open that got its file from fopen and returned NULL all the same:
\* video_codec->init was called and gave a negative value, or the header
\* was not written in full
OpenFailedWithFile == lastOp = "open" /\ ret = 0 /\ "init" \in hooks

\* C32: after an open that fails once the file is created nothing the
\* open has acquired is still held: the file is closed and frame_indexes,
\* video_buffer and audio_buffer are free.
C32_FailedOpenReleases ==
  OpenFailedWithFile
    => /\ ~st.fp_open
       /\ ~st.frame_indexes_alloc
       /\ ~st.video_buffer_alloc
       /\ ~st.audio_buffer_alloc

\* the words that are neither auto nor the id of a codec of the build
UnknownIds ==
  { w \in CodecWords :
      /\ ~Util_stricmp(w, <<"a", "u", "t", "o">>)
      /\ match_video_codec(build, w) = "NULL" }

\* C33: in every state, -videocodec and VIDEO_CODEC with an unknown codec
\* id make File_Export_Initialise and File_Export_ReadConfig return FALSE
\* and leave requested_video_codec as it was.
C33_UnknownCodecRejected ==
  \A w \in UnknownIds :
    LET i == File_Export_Initialise(build, st, <<Option("-videocodec", TRUE, w)>>)
        c == File_Export_ReadConfig(build, st, "VIDEO_CODEC", w)
    IN  /\ i.ret = 0 /\ c.ret = 0
        /\ i.s.requested_video_codec = st.requested_video_codec
        /\ c.s.requested_video_codec = st.requested_video_codec

====
